---- MODULE Spec2Model ----
(***************************************************************************)
(* A model of the lock server of Distributed-Lock-Manager                  *)
(* (internal/server/server.go): the global lock guarded by s.mu and        *)
(* s.cond, the append handler that writes under the same mutex, and the    *)
(* client program that drives them (cmd/client/main.go).                   *)
(*                                                                         *)
(* Every RPC is served by a handler goroutine p \in Procs.  pc[p] is the   *)
(* place of the handler in its function, args[p] the request message,      *)
(* ret[p] the Status it returns.                                           *)
(***************************************************************************)
EXTENDS Integers, Sequences, FiniteSets, TLC

\* ------------------------------------------------------------------ bounds

\* Handler goroutines that may run at the same time.
NumProcs == 3

\* Handler goroutines that run at the same time when FileAppend is served too.
NumAppenders == 2

\* Bytes all files together may hold; no append is issued beyond it.
MaxBytes == 3

\* Client programs that run at the same time.
NumClients == 2

Procs == 1..NumProcs

\* s.mu is held by no goroutine.
NoProc == 0

\* ------------------------------------------------------ program constants

\* lockHolder "-1 if free"
Free == -1

Status_SUCCESS == 0
Status_FILE_ERROR == 1
Status_PERMISSION_DENIED == 2
Status_TIMEOUT == 3

\* Exclusive upper bound of the file index accepted by FileAppend.
NumFiles == 100

\* ----------------------------------------------------------------- inputs

\* Client ids a request may carry: the field is an int32 the client chooses.
ClientIds == {-1, 1, 2}

\* "file_"
FilePrefix == <<"f", "i", "l", "e", "_">>

\* File names a request may carry, as sequences of bytes.
Names ==
    { FilePrefix \o <<"0">>,
      FilePrefix \o <<"+", "0">>,
      <<"b", "o", "g", "u", "s">> }

\* Names of two different files of the data directory.
StoreNames == { FilePrefix \o <<"0">>, FilePrefix \o <<"1">> }

\* The client id the requests to the store carry.
StoreIds == {1}

\* Payloads a request may carry, as sequences of bytes.
Payloads == { <<"A">>, <<"B", "C">> }

\* ------------------------------------------------------- strings, strconv

Digits == {"0", "1", "2", "3", "4", "5", "6", "7", "8", "9"}

DigitVal(c) ==
    CASE c = "0" -> 0 [] c = "1" -> 1 [] c = "2" -> 2 [] c = "3" -> 3
      [] c = "4" -> 4 [] c = "5" -> 5 [] c = "6" -> 6 [] c = "7" -> 7
      [] c = "8" -> 8 [] c = "9" -> 9

DigitChar(d) ==
    CASE d = 0 -> "0" [] d = 1 -> "1" [] d = 2 -> "2" [] d = 3 -> "3"
      [] d = 4 -> "4" [] d = 5 -> "5" [] d = 6 -> "6" [] d = 7 -> "7"
      [] d = 8 -> "8" [] d = 9 -> "9"

\* strings.HasPrefix(s, prefix)
HasPrefix(s, prefix) ==
    /\ Len(s) >= Len(prefix)
    /\ SubSeq(s, 1, Len(prefix)) = prefix

\* strings.TrimPrefix(s, prefix)
TrimPrefix(s, prefix) ==
    IF HasPrefix(s, prefix) THEN SubSeq(s, Len(prefix) + 1, Len(s)) ELSE s

RECURSIVE ParseDigits(_, _)
ParseDigits(s, n) ==
    IF s = <<>> THEN n ELSE ParseDigits(Tail(s), n * 10 + DigitVal(Head(s)))

\* strconv.Atoi(s0): an optional sign, then one or more decimal digits.
\* (The names of the model are far shorter than the 19 bytes at which Atoi
\* starts to check for overflow.)
Atoi(s0) ==
    LET signed == Len(s0) > 0 /\ Head(s0) \in {"+", "-"}
        s == IF signed THEN Tail(s0) ELSE s0
    IN  IF Len(s) < 1 \/ (\E i \in 1..Len(s) : s[i] \notin Digits)
        THEN [err |-> TRUE, num |-> 0]
        ELSE [err |-> FALSE,
              num |-> IF Head(s0) = "-" THEN 0 - ParseDigits(s, 0)
                      ELSE ParseDigits(s, 0)]

\* fmt.Sprintf("%d", i) for i >= 0
RECURSIVE Itoa(_)
Itoa(i) ==
    IF i < 10 THEN <<DigitChar(i)>> ELSE Itoa(i \div 10) \o <<DigitChar(i % 10)>>

\* The validation of FileAppend: the prefix, then Atoi, then the range.
ValidFilename(name) ==
    /\ HasPrefix(name, FilePrefix)
    /\ LET r == Atoi(TrimPrefix(name, FilePrefix))
       IN  ~(r.err \/ r.num < 0 \/ r.num >= NumFiles)

\* fullPath := "data/" + args.Filename
FullPath(name) == <<"data/">> \o name

\* fmt.Sprintf("data/file_%d", i)
DataFile(i) == <<"data/">> \o FilePrefix \o Itoa(i)

\* ------------------------------------------------------------ file system

Paths == { FullPath(n) : n \in Names \cup StoreNames }

NoFile == [exists |-> FALSE, data |-> <<>>]

EmptyDir == [path \in Paths |-> NoFile]

\* os.Create on every data/file_<i> without the os.Stat test: an existing
\* file is truncated.
CreateFiles_Truncates(fs) ==
    [path \in DOMAIN fs |->
        IF \E i \in 0..(NumFiles - 1) : path = DataFile(i)
        THEN [exists |-> TRUE, data |-> <<>>]
        ELSE fs[path]]

\* CreateFiles: every data/file_<i>, i < 100, that does not exist is created
\* empty; an existing file is left as it is.
CreateFiles(fs) ==
    [path \in DOMAIN fs |->
        IF (\E i \in 0..(NumFiles - 1) : path = DataFile(i)) /\ ~fs[path].exists
        THEN [exists |-> TRUE, data |-> <<>>]
        ELSE fs[path]]

\* ------------------------------------------------------------------ state

VARIABLES
    lockHolder,   \* LockServer.lockHolder
    mu,           \* the goroutine that holds LockServer.mu, or NoProc
    pc,           \* pc[p]: where handler p is
    args,         \* args[p]: the request handler p serves
    ret,          \* ret[p]: the Status (or Rc) handler p returns
    files,        \* the data directory: path -> [exists, data]
    kind,         \* history: why handler p's call failed
    outstanding,  \* history: grants since the last successful release (capped)
    client,       \* client[p]: the client program whose calls handler p serves
    grantOrder,   \* history: the client programs in the order they were granted
    openFiles     \* FileManager.openFiles: the names with a cached open handle

vars == <<lockHolder, mu, pc, args, ret, files, kind, outstanding, client, grantOrder, openFiles>>

\* No client program is attached to the handler: requests arrive in any order.
NoClient == [pos |-> "none", id |-> 0]

NoArgs == [ClientId |-> 0, Filename |-> <<>>, Content |-> <<>>]

\* The handler function of p returns: its response, ret[p], is on its way
\* to the caller.
Return(p) ==
    /\ pc' = [pc EXCEPT ![p] = "done"]
    /\ args' = [args EXCEPT ![p] = NoArgs]

\* NewLockServer, after CreateFiles ran in main.
Init ==
    /\ lockHolder = Free
    /\ mu = NoProc
    /\ pc = [p \in Procs |-> "idle"]
    /\ args = [p \in Procs |-> NoArgs]
    /\ ret = [p \in Procs |-> Status_SUCCESS]
    /\ files = CreateFiles(EmptyDir)
    /\ kind = [p \in Procs |-> "none"]
    /\ outstanding = 0
    /\ client = [p \in Procs |-> NoClient]
    /\ grantOrder = <<>>
    /\ openFiles = {}

\* ------------------------------------------------------------- sync.Mutex

\* s.mu.Lock() by p: blocks while another goroutine holds it.
MuLock(p) ==
    /\ mu = NoProc
    /\ mu' = p

\* s.mu.Unlock() by p (deferred in every handler).
MuUnlock(p) ==
    mu' = NoProc

\* ----------------------------------------------------------- requests

RECURSIVE SumLen(_)
SumLen(S) ==
    IF S = {} THEN 0
    ELSE LET x == CHOOSE y \in S : TRUE IN Len(x[2]) + SumLen(S \ {x})

\* Bytes stored, and bytes that appends in flight may still store.
StoredBytes == SumLen({ <<path, files[path].data>> : path \in Paths })

PendingBytes ==
    SumLen({ <<p, args[p].Content>> :
                p \in { q \in Procs : pc[q] \in {"f_lock", "f_check", "f_open", "f_write"} } })

Begin(p, label, a) ==
    /\ pc[p] \in {"idle", "done"}
    /\ pc' = [pc EXCEPT ![p] = label]
    /\ args' = [args EXCEPT ![p] = a]
    /\ ret' = [ret EXCEPT ![p] = Status_SUCCESS]
    /\ kind' = [kind EXCEPT ![p] = "none"]
    /\ UNCHANGED <<lockHolder, mu, files, outstanding>>

LockArgs(id) == [NoArgs EXCEPT !.ClientId = id]

FileArgs(id, name, content) ==
    [ClientId |-> id, Filename |-> name, Content |-> content]

CallClientInit(p) ==
    /\ Begin(p, "i_call", NoArgs)
    /\ UNCHANGED <<client, grantOrder, openFiles>>

CallClientClose(p) ==
    /\ Begin(p, "c_call", NoArgs)
    /\ UNCHANGED <<client, grantOrder, openFiles>>

CallLockAcquire(p, id) ==
    /\ Begin(p, "a_lock", LockArgs(id))
    /\ UNCHANGED <<client, grantOrder, openFiles>>

CallLockRelease(p, id) ==
    /\ Begin(p, "r_lock", LockArgs(id))
    /\ UNCHANGED <<client, grantOrder, openFiles>>

CallFileAppend(p, id, name, content) ==
    /\ StoredBytes + PendingBytes + Len(content) <= MaxBytes
    /\ Begin(p, "f_lock", FileArgs(id, name, content))
    /\ UNCHANGED <<client, grantOrder, openFiles>>

\* ---------------------------------------------------------- ClientInit

\* ClientInit: return &pb.Int{Rc: 0}
ClientInit(p) ==
    /\ pc[p] = "i_call"
    /\ ret' = [ret EXCEPT ![p] = 0]
    /\ pc' = [pc EXCEPT ![p] = "i_ret"]
    /\ UNCHANGED <<lockHolder, mu, args, files, kind, outstanding, client, grantOrder, openFiles>>

InitReturn(p) ==
    /\ pc[p] = "i_ret"
    /\ Return(p)
    /\ UNCHANGED <<lockHolder, mu, ret, files, kind, outstanding, client, grantOrder, openFiles>>

\* ClientClose frees the lock on its way.
ClientClose_Frees(p) ==
    /\ pc[p] = "c_call"
    /\ lockHolder' = Free
    /\ ret' = [ret EXCEPT ![p] = 0]
    /\ pc' = [pc EXCEPT ![p] = "c_ret"]
    /\ UNCHANGED <<mu, args, files, kind, outstanding, client, grantOrder, openFiles>>

\* ClientClose: return &pb.Int{Rc: 0}
ClientClose(p) ==
    /\ pc[p] = "c_call"
    /\ ret' = [ret EXCEPT ![p] = 0]
    /\ pc' = [pc EXCEPT ![p] = "c_ret"]
    /\ UNCHANGED <<lockHolder, mu, args, files, kind, outstanding, client, grantOrder, openFiles>>

CloseReturn(p) ==
    /\ pc[p] = "c_ret"
    /\ Return(p)
    /\ UNCHANGED <<lockHolder, mu, ret, files, kind, outstanding, client, grantOrder, openFiles>>

\* --------------------------------------------------------- LockAcquire

\* s.mu.Lock()
AcqLock(p) ==
    /\ pc[p] = "a_lock"
    /\ MuLock(p)
    /\ pc' = [pc EXCEPT ![p] = "a_check"]
    /\ UNCHANGED <<lockHolder, args, ret, files, kind, outstanding, client, grantOrder, openFiles>>

\* The goroutine joins the condition's wait list and keeps s.mu.
AcqWait_KeepsMutex(p) ==
    /\ pc[p] = "a_check"
    /\ lockHolder # Free
    /\ pc' = [pc EXCEPT ![p] = "a_parked"]
    /\ UNCHANGED <<lockHolder, mu, args, ret, files, kind, outstanding, client, grantOrder, openFiles>>

\* for s.lockHolder != -1 { s.cond.Wait() }: the goroutine joins the
\* condition's wait list and gives up s.mu in one step.
AcqWait(p) ==
    /\ pc[p] = "a_check"
    /\ lockHolder # Free
    /\ MuUnlock(p)
    /\ pc' = [pc EXCEPT ![p] = "a_parked"]
    /\ UNCHANGED <<lockHolder, args, ret, files, kind, outstanding, client, grantOrder, openFiles>>

\* The woken goroutines take s.mu again in a fixed order: a goroutine goes on
\* only when no goroutine before it is still waiting to.
AcqWake_InOrder(p) ==
    /\ pc[p] = "a_woken"
    /\ \A q \in Procs : pc[q] = "a_woken" => p <= q
    /\ MuLock(p)
    /\ pc' = [pc EXCEPT ![p] = "a_check"]
    /\ UNCHANGED <<lockHolder, args, ret, files, kind, outstanding, client, grantOrder, openFiles>>

\* A goroutine woken by Broadcast takes s.mu again before Wait returns.
AcqWake(p) ==
    /\ pc[p] = "a_woken"
    /\ MuLock(p)
    /\ pc' = [pc EXCEPT ![p] = "a_check"]
    /\ UNCHANGED <<lockHolder, args, ret, files, kind, outstanding, client, grantOrder, openFiles>>

\* s.lockHolder = args.ClientId; return SUCCESS
AcqGrant(p) ==
    /\ pc[p] = "a_check"
    /\ lockHolder = Free
    /\ lockHolder' = args[p].ClientId
    /\ ret' = [ret EXCEPT ![p] = Status_SUCCESS]
    /\ pc' = [pc EXCEPT ![p] = "a_ret"]
    /\ outstanding' = IF outstanding < 2 THEN outstanding + 1 ELSE outstanding
    /\ grantOrder' = IF client[p].pos = "none" THEN grantOrder
                     ELSE Append(grantOrder, p)
    /\ UNCHANGED <<mu, args, files, kind, client, openFiles>>

\* the deferred s.mu.Unlock()
AcqReturn(p) ==
    /\ pc[p] = "a_ret"
    /\ MuUnlock(p)
    /\ Return(p)
    /\ UNCHANGED <<lockHolder, ret, files, kind, outstanding, client, grantOrder, openFiles>>

\* --------------------------------------------------------- LockRelease

\* s.mu.Lock()
RelLock(p) ==
    /\ pc[p] = "r_lock"
    /\ MuLock(p)
    /\ pc' = [pc EXCEPT ![p] = "r_check"]
    /\ UNCHANGED <<lockHolder, args, ret, files, kind, outstanding, client, grantOrder, openFiles>>

\* if s.lockHolder == args.ClientId { s.lockHolder = -1
RelFree(p) ==
    /\ pc[p] = "r_check"
    /\ lockHolder = args[p].ClientId
    /\ lockHolder' = Free
    /\ pc' = [pc EXCEPT ![p] = "r_bcast"]
    /\ outstanding' = 0
    /\ UNCHANGED <<mu, args, ret, files, kind, client, grantOrder, openFiles>>

\* The Broadcast is left out: no waiter is woken.
RelBroadcast_NoWake(p) ==
    /\ pc[p] = "r_bcast"
    /\ pc' = [pc EXCEPT ![p] = "r_ret"]
    /\ ret' = [ret EXCEPT ![p] = Status_SUCCESS]
    /\ UNCHANGED <<lockHolder, mu, args, files, kind, outstanding, client, grantOrder, openFiles>>

\* s.cond.Signal() in the place of Broadcast: one waiter is woken.
RelBroadcast_Signal(p) ==
    /\ pc[p] = "r_bcast"
    /\ \E w \in SUBSET { q \in Procs : pc[q] = "a_parked" } :
          /\ Cardinality(w) <= 1
          /\ (w = {} => \A q \in Procs : pc[q] # "a_parked")
          /\ pc' = [q \in Procs |->
                      IF q = p THEN "r_ret"
                      ELSE IF q \in w THEN "a_woken" ELSE pc[q]]
    /\ ret' = [ret EXCEPT ![p] = Status_SUCCESS]
    /\ UNCHANGED <<lockHolder, mu, args, files, kind, outstanding, client, grantOrder, openFiles>>

\* s.cond.Broadcast(); return SUCCESS: every goroutine on the wait list is
\* made runnable.
RelBroadcast(p) ==
    /\ pc[p] = "r_bcast"
    /\ pc' = [q \in Procs |->
                IF q = p THEN "r_ret"
                ELSE IF pc[q] = "a_parked" THEN "a_woken" ELSE pc[q]]
    /\ ret' = [ret EXCEPT ![p] = Status_SUCCESS]
    /\ UNCHANGED <<lockHolder, mu, args, files, kind, outstanding, client, grantOrder, openFiles>>

\* The rejected release frees the lock all the same.
RelDeny_Frees(p) ==
    /\ pc[p] = "r_check"
    /\ lockHolder # args[p].ClientId
    /\ lockHolder' = Free
    /\ ret' = [ret EXCEPT ![p] = Status_FILE_ERROR]
    /\ kind' = [kind EXCEPT ![p] = "permission"]
    /\ pc' = [pc EXCEPT ![p] = "r_ret"]
    /\ UNCHANGED <<mu, args, files, outstanding, client, grantOrder, openFiles>>

\* Client doesn't hold the lock: return FILE_ERROR
RelDeny(p) ==
    /\ pc[p] = "r_check"
    /\ lockHolder # args[p].ClientId
    /\ ret' = [ret EXCEPT ![p] = Status_FILE_ERROR]
    /\ kind' = [kind EXCEPT ![p] = "permission"]
    /\ pc' = [pc EXCEPT ![p] = "r_ret"]
    /\ UNCHANGED <<lockHolder, mu, args, files, outstanding, client, grantOrder, openFiles>>

\* the deferred s.mu.Unlock()
RelReturn(p) ==
    /\ pc[p] = "r_ret"
    /\ MuUnlock(p)
    /\ Return(p)
    /\ UNCHANGED <<lockHolder, ret, files, kind, outstanding, client, grantOrder, openFiles>>

\* ---------------------------------------------------------- FileAppend

\* FileAppend goes on without taking s.mu.
FLock_NoMutex(p) ==
    /\ pc[p] = "f_lock"
    /\ pc' = [pc EXCEPT ![p] = "f_check"]
    /\ UNCHANGED <<lockHolder, mu, args, ret, files, kind, outstanding, client, grantOrder, openFiles>>

\* s.mu.Lock()
FLock(p) ==
    /\ pc[p] = "f_lock"
    /\ MuLock(p)
    /\ pc' = [pc EXCEPT ![p] = "f_check"]
    /\ UNCHANGED <<lockHolder, args, ret, files, kind, outstanding, client, grantOrder, openFiles>>

\* FileAppend by a caller that is not the holder gives up s.mu and tries
\* again later, in the place of returning an error.
FDeny_Waits(p) ==
    /\ pc[p] = "f_check"
    /\ lockHolder # args[p].ClientId
    /\ MuUnlock(p)
    /\ pc' = [pc EXCEPT ![p] = "f_lock"]
    /\ UNCHANGED <<lockHolder, args, ret, files, kind, outstanding, client, grantOrder, openFiles>>

\* if s.lockHolder != args.ClientId { return FILE_ERROR }
FDeny(p) ==
    /\ pc[p] = "f_check"
    /\ lockHolder # args[p].ClientId
    /\ ret' = [ret EXCEPT ![p] = Status_FILE_ERROR]
    /\ kind' = [kind EXCEPT ![p] = "permission"]
    /\ pc' = [pc EXCEPT ![p] = "f_ret"]
    /\ UNCHANGED <<lockHolder, mu, args, files, outstanding, client, grantOrder, openFiles>>

\* The name fails the validation: return FILE_ERROR
FInvalid(p) ==
    /\ pc[p] = "f_check"
    /\ lockHolder = args[p].ClientId
    /\ ~ValidFilename(args[p].Filename)
    /\ ret' = [ret EXCEPT ![p] = Status_FILE_ERROR]
    /\ kind' = [kind EXCEPT ![p] = "validation"]
    /\ pc' = [pc EXCEPT ![p] = "f_ret"]
    /\ UNCHANGED <<lockHolder, mu, args, files, outstanding, client, grantOrder, openFiles>>

\* The caller is the holder and the name passes: go on to os.OpenFile.
FAccept(p) ==
    /\ pc[p] = "f_check"
    /\ lockHolder = args[p].ClientId
    /\ ValidFilename(args[p].Filename)
    /\ pc' = [pc EXCEPT ![p] = "f_open"]
    /\ UNCHANGED <<lockHolder, mu, args, ret, files, kind, outstanding, client, grantOrder, openFiles>>

\* os.OpenFile(fullPath, O_APPEND|O_WRONLY) fails: the file does not exist
\* (no O_CREATE), or the system refuses. return FILE_ERROR
FOpenFail(p) ==
    /\ pc[p] = "f_open"
    /\ ret' = [ret EXCEPT ![p] = Status_FILE_ERROR]
    /\ kind' = [kind EXCEPT ![p] = "io"]
    /\ pc' = [pc EXCEPT ![p] = "f_ret"]
    /\ UNCHANGED <<lockHolder, mu, args, files, outstanding, client, grantOrder, openFiles>>

\* os.OpenFile(fullPath, O_APPEND|O_WRONLY) fails because the file does not
\* exist: the flags hold no O_CREATE. return FILE_ERROR
FOpenMissing(p) ==
    /\ pc[p] = "f_open"
    /\ ~files[FullPath(args[p].Filename)].exists
    /\ FOpenFail(p)

\* os.OpenFile succeeds on an existing file.
FOpenOk(p) ==
    /\ pc[p] = "f_open"
    /\ files[FullPath(args[p].Filename)].exists
    /\ pc' = [pc EXCEPT ![p] = "f_write"]
    /\ UNCHANGED <<lockHolder, mu, args, ret, files, kind, outstanding, client, grantOrder, openFiles>>

\* What a write of `bytes` through an O_APPEND handle leaves in the file.
AppendBytes(f, bytes) ==
    [f EXCEPT !.data = f.data \o bytes]

\* f.Write(args.Content) writes the whole payload: return SUCCESS
FWriteOk(p) ==
    /\ pc[p] = "f_write"
    /\ LET path == FullPath(args[p].Filename)
       IN  files' = [files EXCEPT ![path] = AppendBytes(files[path], args[p].Content)]
    /\ ret' = [ret EXCEPT ![p] = Status_SUCCESS]
    /\ pc' = [pc EXCEPT ![p] = "f_ret"]
    /\ UNCHANGED <<lockHolder, mu, args, kind, outstanding, client, grantOrder, openFiles>>

\* A short write is taken for a whole one: return SUCCESS
FWriteFail_ReportsSuccess(p) ==
    /\ pc[p] = "f_write"
    /\ \E n \in 0..(Len(args[p].Content) - 1) :
         LET path == FullPath(args[p].Filename)
         IN  files' = [files EXCEPT
                          ![path] = AppendBytes(files[path], SubSeq(args[p].Content, 1, n))]
    /\ ret' = [ret EXCEPT ![p] = Status_SUCCESS]
    /\ pc' = [pc EXCEPT ![p] = "f_ret"]
    /\ UNCHANGED <<lockHolder, mu, args, kind, outstanding, client, grantOrder, openFiles>>

\* f.Write fails after n bytes (n less than the payload): return FILE_ERROR
FWriteFail(p) ==
    /\ pc[p] = "f_write"
    /\ \E n \in 0..(Len(args[p].Content) - 1) :
         LET path == FullPath(args[p].Filename)
         IN  files' = [files EXCEPT
                          ![path] = AppendBytes(files[path], SubSeq(args[p].Content, 1, n))]
    /\ ret' = [ret EXCEPT ![p] = Status_FILE_ERROR]
    /\ kind' = [kind EXCEPT ![p] = "io"]
    /\ pc' = [pc EXCEPT ![p] = "f_ret"]
    /\ UNCHANGED <<lockHolder, mu, args, outstanding, client, grantOrder, openFiles>>

\* the deferred f.Close() (when the file was opened) and s.mu.Unlock()
FReturn(p) ==
    /\ pc[p] = "f_ret"
    /\ MuUnlock(p)
    /\ Return(p)
    /\ UNCHANGED <<lockHolder, ret, files, kind, outstanding, client, grantOrder, openFiles>>

\* ------------------------------------------------- the client program

Clients == 1..NumClients

\* os.Args[2] of the client program p.
Message(p) == CASE p = 1 -> "A" [] p = 2 -> "B" [] OTHER -> "C"

\* fmt.Sprintf("%d", id) for a client id
IdString(id) == IF id < 0 THEN <<"-">> \o Itoa(0 - id) ELSE Itoa(id)

\* content := fmt.Sprintf("%s from client %d\n", message, clientID)
ClientContent(p) ==
    <<Message(p), " from client ">> \o IdString(client[p].id) \o <<"\n">>

\* The file every client program appends to: "file_0"
ClientFile == FilePrefix \o <<"0">>

At(p, pos) ==
    client' = [client EXCEPT ![p].pos = pos]

\* Step 1: ClientInit
CliInit(p) ==
    /\ client[p].pos = "start"
    /\ Begin(p, "i_call", NoArgs)
    /\ At(p, "init")
    /\ UNCHANGED <<grantOrder, openFiles>>

\* Step 2: LockAcquire, once ClientInit has answered
CliAcquire(p) ==
    /\ client[p].pos = "init"
    /\ pc[p] = "done"
    /\ Begin(p, "a_lock", LockArgs(client[p].id))
    /\ At(p, "acquire")
    /\ UNCHANGED <<grantOrder, openFiles>>

\* Step 3: FileAppend("file_0", content), once LockAcquire answered SUCCESS
CliAppend(p) ==
    /\ client[p].pos = "acquire"
    /\ pc[p] = "done"
    /\ ret[p] = Status_SUCCESS
    /\ Begin(p, "f_lock", FileArgs(client[p].id, ClientFile, ClientContent(p)))
    /\ At(p, "append")
    /\ UNCHANGED <<grantOrder, openFiles>>

\* Step 4: LockRelease, once FileAppend answered SUCCESS
CliRelease(p) ==
    /\ client[p].pos = "append"
    /\ pc[p] = "done"
    /\ ret[p] = Status_SUCCESS
    /\ Begin(p, "r_lock", LockArgs(client[p].id))
    /\ At(p, "release")
    /\ UNCHANGED <<grantOrder, openFiles>>

\* Step 5: ClientClose, once LockRelease answered SUCCESS
CliClose(p) ==
    /\ client[p].pos = "release"
    /\ pc[p] = "done"
    /\ ret[p] = Status_SUCCESS
    /\ Begin(p, "c_call", NoArgs)
    /\ At(p, "close")
    /\ UNCHANGED <<grantOrder, openFiles>>

\* The program ends once ClientClose has answered.
CliExit(p) ==
    /\ client[p].pos = "close"
    /\ pc[p] = "done"
    /\ At(p, "exit")
    /\ UNCHANGED <<lockHolder, mu, pc, args, ret, files, kind, outstanding, grantOrder, openFiles>>

\* log.Fatalf: a status other than SUCCESS ends the process at once; the
\* steps that follow are not run.
CliFatal(p) ==
    /\ client[p].pos \in {"acquire", "append", "release"}
    /\ pc[p] = "done"
    /\ ret[p] # Status_SUCCESS
    /\ At(p, "fatal")
    /\ UNCHANGED <<lockHolder, mu, pc, args, ret, files, kind, outstanding, grantOrder, openFiles>>

\* NewLockServer after CreateFiles, and NumClients client programs started
\* with the ids given on their command lines.
InitClients ==
    /\ lockHolder = Free
    /\ mu = NoProc
    /\ pc = [p \in Procs |-> "idle"]
    /\ args = [p \in Procs |-> NoArgs]
    /\ ret = [p \in Procs |-> Status_SUCCESS]
    /\ files = CreateFiles(EmptyDir)
    /\ kind = [p \in Procs |-> "none"]
    /\ outstanding = 0
    /\ client \in { c \in [Procs -> [pos : {"start", "none"}, id : ClientIds \cup {0}]] :
                       \A p \in Procs :
                          IF p \in Clients
                          THEN c[p].pos = "start" /\ c[p].id \in ClientIds
                          ELSE c[p] = NoClient }
    /\ grantOrder = <<>>
    /\ openFiles = {}

\* --------------------------------------------------- the file manager

\* The goroutine that calls the file manager; its calls follow one another.
FmCaller == 1

\* Names the calls to the file manager carry: the two files, and a name
\* without the prefix.
FmNames == StoreNames \cup { <<"b", "o", "g", "u", "s">> }

\* NewFileManager on an empty data directory: no handle is cached.
NewFileManager ==
    /\ lockHolder = Free
    /\ mu = NoProc
    /\ pc = [p \in Procs |-> "idle"]
    /\ args = [p \in Procs |-> NoArgs]
    /\ ret = [p \in Procs |-> Status_SUCCESS]
    /\ files = EmptyDir
    /\ kind = [p \in Procs |-> "none"]
    /\ outstanding = 0
    /\ client = [p \in Procs |-> NoClient]
    /\ grantOrder = <<>>
    /\ openFiles = {}

\* The caller is between two calls.
FmReady(p) == pc[p] \in {"idle", "appended", "rejected", "cleaned"}

\* AppendToFile(name, content) with a valid name: under the guard of the
\* file, the cached handle is used, or the file is opened for append
\* (created if it is missing) and the handle cached; the payload is written
\* in one write.  Returns nil (here Status_SUCCESS).
AppendToFile(p, name, content) ==
    /\ FmReady(p)
    /\ ValidFilename(name)
    /\ StoredBytes + Len(content) <= MaxBytes
    /\ openFiles' = openFiles \cup {name}
    /\ LET path == FullPath(name)
       IN  files' = [files EXCEPT
                        ![path] = AppendBytes([exists |-> TRUE, data |-> files[path].data],
                                              content)]
    /\ args' = [args EXCEPT ![p] = FileArgs(0, name, content)]
    /\ ret' = [ret EXCEPT ![p] = Status_SUCCESS]
    /\ kind' = [kind EXCEPT ![p] = "none"]
    /\ pc' = [pc EXCEPT ![p] = "appended"]
    /\ UNCHANGED <<lockHolder, mu, outstanding, client, grantOrder>>

\* AppendToFile(name, content) with a name that fails the validation:
\* returns an error before any I/O.
AppendInvalid(p, name, content) ==
    /\ FmReady(p)
    /\ ~ValidFilename(name)
    /\ args' = [args EXCEPT ![p] = FileArgs(0, name, content)]
    /\ ret' = [ret EXCEPT ![p] = Status_FILE_ERROR]
    /\ kind' = [kind EXCEPT ![p] = "validation"]
    /\ pc' = [pc EXCEPT ![p] = "rejected"]
    /\ UNCHANGED <<lockHolder, mu, files, outstanding, client, grantOrder, openFiles>>

\* The handles are closed and their entries are left in the map.
Cleanup_KeepsEntries(p) ==
    /\ FmReady(p)
    /\ args' = [args EXCEPT ![p] = NoArgs]
    /\ ret' = [ret EXCEPT ![p] = Status_SUCCESS]
    /\ kind' = [kind EXCEPT ![p] = "none"]
    /\ pc' = [pc EXCEPT ![p] = "cleaned"]
    /\ UNCHANGED <<lockHolder, mu, files, outstanding, client, grantOrder, openFiles>>

\* Cleanup(): every cached handle is closed and the map is emptied.
Cleanup(p) ==
    /\ FmReady(p)
    /\ openFiles' = {}
    /\ args' = [args EXCEPT ![p] = NoArgs]
    /\ ret' = [ret EXCEPT ![p] = Status_SUCCESS]
    /\ kind' = [kind EXCEPT ![p] = "none"]
    /\ pc' = [pc EXCEPT ![p] = "cleaned"]
    /\ UNCHANGED <<lockHolder, mu, files, outstanding, client, grantOrder>>

\* One goroutine calls AppendToFile and Cleanup in any order.
NextFileManager ==
    \/ \E name \in FmNames, content \in Payloads :
          AppendToFile(FmCaller, name, content)
    \/ \E name \in FmNames, content \in Payloads :
          AppendInvalid(FmCaller, name, content)
    \/ Cleanup(FmCaller)

SpecFileManager == NewFileManager /\ [][NextFileManager]_vars

\* ------------------------------------------------------- specifications

\* A lock request arrives at handler p.
CallLock(p) ==
    \/ CallClientInit(p)
    \/ CallClientClose(p)
    \/ \E id \in ClientIds : CallLockAcquire(p, id)
    \/ \E id \in ClientIds : CallLockRelease(p, id)

\* Handler p takes the next step of ClientInit, ClientClose, LockAcquire or
\* LockRelease.
StepLock(p) ==
    \/ ClientInit(p) \/ InitReturn(p) \/ ClientClose(p) \/ CloseReturn(p)
    \/ AcqLock(p) \/ AcqWait(p) \/ AcqWake(p) \/ AcqGrant(p) \/ AcqReturn(p)
    \/ RelLock(p) \/ RelFree(p) \/ RelBroadcast(p) \/ RelDeny(p) \/ RelReturn(p)

\* Handler p takes the next step of FileAppend.
StepAppend(p) ==
    \/ FLock(p) \/ FDeny(p) \/ FInvalid(p) \/ FAccept(p)
    \/ FOpenFail(p) \/ FOpenOk(p) \/ FWriteOk(p) \/ FWriteFail(p) \/ FReturn(p)

\* The lock service alone: NumProcs handlers serve ClientInit, ClientClose,
\* LockAcquire and LockRelease in every interleaving.
NextLock == \E p \in Procs : CallLock(p) \/ StepLock(p)

SpecLock == Init /\ [][NextLock]_vars

\* The lock service with FileAppend: NumAppenders handlers serve LockAcquire,
\* LockRelease and FileAppend in every interleaving.
Appenders == 1..NumAppenders

Next ==
    \E p \in Appenders :
        \/ \E id \in ClientIds : CallLockAcquire(p, id)
        \/ \E id \in ClientIds : CallLockRelease(p, id)
        \/ \E id \in ClientIds, name \in Names, content \in Payloads :
              CallFileAppend(p, id, name, content)
        \/ AcqLock(p) \/ AcqWait(p) \/ AcqWake(p) \/ AcqGrant(p) \/ AcqReturn(p)
        \/ RelLock(p) \/ RelFree(p) \/ RelBroadcast(p) \/ RelDeny(p) \/ RelReturn(p)
        \/ StepAppend(p)

Spec == Init /\ [][Next]_vars


\* The client programs against the server, the file system permitting every
\* open and write.
NextClients ==
    \E p \in Clients :
        \/ CliInit(p) \/ CliAcquire(p) \/ CliAppend(p) \/ CliRelease(p)
        \/ CliClose(p) \/ CliExit(p) \/ CliFatal(p)
        \/ ClientInit(p) \/ InitReturn(p) \/ ClientClose(p) \/ CloseReturn(p)
        \/ AcqLock(p) \/ AcqWait(p) \/ AcqWake(p) \/ AcqGrant(p) \/ AcqReturn(p)
        \/ RelLock(p) \/ RelFree(p) \/ RelBroadcast(p) \/ RelDeny(p) \/ RelReturn(p)
        \/ FLock(p) \/ FDeny(p) \/ FAccept(p) \/ FOpenOk(p) \/ FWriteOk(p) \/ FReturn(p)

SpecClients == InitClients /\ [][NextClients]_vars

\* The data directories a server may be started on before CreateFiles has
\* been run: each of the two files is there (empty) or missing, and at least
\* one is missing.
StoreDirs ==
    { fs \in [Paths -> {NoFile, [exists |-> TRUE, data |-> <<>>]}] :
        /\ \A path \in Paths :
              fs[path].exists => path \in { FullPath(n) : n \in StoreNames }
        /\ \E path \in Paths : fs[path] # CreateFiles(fs)[path] }

\* A server on a data directory that CreateFiles has not been run on.
InitStore ==
    /\ lockHolder = Free
    /\ mu = NoProc
    /\ pc = [p \in Procs |-> "idle"]
    /\ args = [p \in Procs |-> NoArgs]
    /\ ret = [p \in Procs |-> Status_SUCCESS]
    /\ files \in StoreDirs
    /\ kind = [p \in Procs |-> "none"]
    /\ outstanding = 0
    /\ client = [p \in Procs |-> NoClient]
    /\ grantOrder = <<>>
    /\ openFiles = {}

\* CreateFiles() is run (at the start of the server process, or again).
Bootstrap ==
    /\ files' = CreateFiles(files)
    /\ UNCHANGED <<lockHolder, mu, pc, args, ret, kind, outstanding, client, grantOrder, openFiles>>

\* The store: NumAppenders handlers serve the requests of one client on two
\* files of a data directory that starts without them; every open of an
\* existing file and every write succeeds.
NextStore ==
    \/ Bootstrap
    \/ \E p \in Appenders :
        \/ \E id \in StoreIds : CallLockAcquire(p, id)
        \/ \E id \in StoreIds : CallLockRelease(p, id)
        \/ \E id \in StoreIds, name \in StoreNames, content \in Payloads :
              CallFileAppend(p, id, name, content)
        \/ AcqLock(p) \/ AcqWait(p) \/ AcqWake(p) \/ AcqGrant(p) \/ AcqReturn(p)
        \/ RelLock(p) \/ RelFree(p) \/ RelBroadcast(p) \/ RelDeny(p) \/ RelReturn(p)
        \/ FLock(p) \/ FDeny(p) \/ FAccept(p) \/ FOpenMissing(p) \/ FOpenOk(p)
        \/ FWriteOk(p) \/ FReturn(p)

SpecStore == InitStore /\ [][NextStore]_vars

\* The whole service: NumAppenders handlers serve the five RPCs in every
\* interleaving, the appends going to file_0, the file system permitting
\* every open and write.
NextService ==
    \E p \in Appenders :
        \/ CallClientInit(p)
        \/ CallClientClose(p)
        \/ \E id \in ClientIds : CallLockAcquire(p, id)
        \/ \E id \in ClientIds : CallLockRelease(p, id)
        \/ \E id \in ClientIds, content \in Payloads :
              CallFileAppend(p, id, ClientFile, content)
        \/ StepLock(p)
        \/ FLock(p) \/ FDeny(p) \/ FAccept(p) \/ FOpenOk(p) \/ FWriteOk(p) \/ FReturn(p)

SpecService == Init /\ [][NextService]_vars

\* The client programs against the server, the file system being free to
\* refuse an open or to cut a write short.
NextClientsIo ==
    \/ NextClients
    \/ \E p \in Clients : FOpenFail(p) \/ FWriteFail(p)

SpecClientsIo == InitClients /\ [][NextClientsIo]_vars

\* The lock service under a fair scheduler: a handler that can take a step
\* again and again does take it (the Go scheduler runs every runnable
\* goroutine, and sync.Mutex hands the mutex to a goroutine that has waited
\* for it).  Nothing obliges a client to send a request.
SpecLockFair == SpecLock /\ \A p \in Procs : SF_vars(StepLock(p))

\* The lock service with FileAppend under a fair scheduler (as SpecLockFair).
SpecFair ==
    Spec /\ \A p \in Appenders : SF_vars(StepLock(p) \/ StepAppend(p))

\* -------------------------------------------------------------- claims

\* Goroutines inside s.cond.Wait(): on the wait list, or woken and waiting
\* for s.mu.
Parked == { p \in Procs : pc[p] = "a_parked" }

Woken == { p \in Procs : pc[p] = "a_woken" }

Blocked == Parked \cup Woken

\* C1: mutual exclusion: for every client id, no two LockAcquire calls are
\* both granted without a successful LockRelease in between.
C1_MutualExclusion == outstanding <= 1

\* C4: release rejection: a LockRelease(id) that finds the lock unheld, or
\* held by a different id, returns an error, leaves the holder as it is and
\* wakes no waiter.
C4_ReleaseRejection ==
    [][\A p \in Procs :
          ( /\ pc[p] = "r_check"
            /\ pc'[p] # "r_check"
            /\ (lockHolder = Free \/ lockHolder # args[p].ClientId) )
          => ( /\ pc'[p] = "r_ret"
               /\ ret'[p] # Status_SUCCESS
               /\ lockHolder' = lockHolder
               /\ Parked' = Parked )]_vars

\* The handler that is between s.mu.Lock() and the deferred s.mu.Unlock() of
\* LockRelease.
InRelease(p) == pc[p] \in {"r_check", "r_bcast", "r_ret"}

\* C5: release by the holder: LockRelease(id) with lockHolder = id sets the
\* holder to unheld, wakes every goroutine parked in LockAcquire (all of
\* them, not one) and returns SUCCESS, all of it while it holds s.mu.
C5_ReleaseByHolder ==
    /\ [](\A p \in Procs : InRelease(p) => mu = p)
    /\ [][\A p \in Procs :
            /\ ( pc[p] = "r_check" /\ pc'[p] # "r_check"
                 /\ lockHolder = args[p].ClientId )
               => (pc'[p] = "r_bcast" /\ lockHolder' = Free)
            /\ ( pc[p] = "r_bcast" /\ pc'[p] # "r_bcast" )
               => ( /\ pc'[p] = "r_ret"
                    /\ ret'[p] = Status_SUCCESS
                    /\ lockHolder' = Free
                    /\ Parked' = {}
                    /\ Woken' = Woken \cup Parked )]_vars

\* C5 witness: a release by the holder has just woken two parked callers.
C5_Witness ==
    \E p \in Procs :
        /\ pc[p] = "r_ret"
        /\ ret[p] = Status_SUCCESS
        /\ lockHolder = Free
        /\ Cardinality(Woken) >= 2

\* A LockAcquire call is granted: its handler has set the holder and is
\* about to return SUCCESS.
GrantedTo(p) == pc[p] = "a_ret"

\* LockAcquire calls in flight that have not been granted: waiting for s.mu,
\* parked in s.cond.Wait(), or woken and waiting for s.mu again.
Pending == { p \in Procs : pc[p] \in {"a_lock", "a_check", "a_parked", "a_woken"} }

\* C3 as stated: when callers are blocked in LockAcquire and the lock has
\* been released, one of those very callers is eventually granted the lock.
C3_OneOfTheBlocked ==
    \A S \in (SUBSET Procs) \ {{}} :
        (Pending = S /\ Blocked # {} /\ lockHolder = Free)
            ~> (\E p \in S : GrantedTo(p))

\* C3 amended: when callers are blocked in LockAcquire and the lock has been
\* released, some LockAcquire call is eventually granted (one of the blocked
\* callers, or a call that arrived later and took s.mu first), and no caller
\* stays in LockAcquire for ever while the lock is unheld.
C3_NoLostWakeup ==
    /\ (Blocked # {} /\ lockHolder = Free) ~> (\E p \in Procs : GrantedTo(p))
    /\ \A p \in Procs : []<>~(p \in Pending /\ lockHolder = Free)

\* C3 witness: a release has freed the lock and woken a blocked caller.
C3_Witness ==
    /\ lockHolder = Free
    /\ Woken # {}
    /\ \E p \in Procs : pc[p] = "r_ret" /\ ret[p] = Status_SUCCESS

\* The handler that is between the ownership check of FileAppend and the
\* end of its write.
Appending(p) == pc[p] \in {"f_open", "f_write"}

\* C2: no append without the lock: whenever a FileAppend has passed the
\* ownership check and until its write has ended, the lock is held (a grant
\* has not been released) and its holder is the appender's client id.
C2_NoAppendWithoutLock ==
    \A p \in Procs :
        Appending(p) => (outstanding >= 1 /\ lockHolder = args[p].ClientId)

\* The handler that is between s.mu.Lock() and the deferred s.mu.Unlock() of
\* FileAppend.
InAppend(p) == pc[p] \in {"f_check", "f_open", "f_write", "f_ret"}

\* C6: append isolation: no two FileAppend calls are in their writing section
\* at the same moment; the files change by the write of a FileAppend and by
\* nothing else; and a FileAppend that returns SUCCESS has put its payload,
\* whole and in one piece, at the end of its file and has left every other
\* file as it was (the length grows by the length of the payload).
C6_AppendIsolation ==
    /\ [](\A p, q \in Procs : (InAppend(p) /\ InAppend(q)) => p = q)
    /\ [][ /\ (files' # files)
              => \E p \in Procs : pc[p] = "f_write" /\ pc'[p] = "f_ret"
           /\ \A p \in Procs :
                ( pc[p] = "f_write" /\ pc'[p] = "f_ret"
                  /\ ret'[p] = Status_SUCCESS )
                => LET path == FullPath(args[p].Filename)
                   IN  /\ files'[path].data = files[path].data \o args[p].Content
                       /\ Len(files'[path].data)
                            = Len(files[path].data) + Len(args[p].Content)
                       /\ \A other \in Paths \ {path} :
                            files'[other] = files[other] ]_vars

\* C6 witness: two FileAppend calls to the same file are in flight; one
\* writes after an earlier payload while the other waits for s.mu.
C6_Witness ==
    \E p, q \in Procs :
        /\ p # q
        /\ pc[p] = "f_write"
        /\ pc[q] = "f_lock"
        /\ args[p].Filename = args[q].Filename
        /\ files[FullPath(args[p].Filename)].data # <<>>

\* The payloads of the client programs in `order`, one after the other.
RECURSIVE Concat(_)
Concat(order) ==
    IF order = <<>> THEN <<>>
    ELSE ClientContent(Head(order)) \o Concat(Tail(order))

\* C7: end-to-end ordering: when client programs with different ids each
\* run LockAcquire, FileAppend("file_0", payload), LockRelease, every call
\* succeeds (no program ends in log.Fatalf), and once all have ended file_0
\* holds the payloads, each intact, in the order the lock was granted.
C7_EndToEndOrdering ==
    (\A p, q \in Clients : p # q => client[p].id # client[q].id)
    => /\ \A p \in Clients : client[p].pos # "fatal"
       /\ (\A p \in Clients : client[p].pos = "exit")
          => /\ Len(grantOrder) = NumClients
             /\ files[FullPath(ClientFile)].data = Concat(grantOrder)

\* "file_<i>" in the one form fmt.Sprintf("file_%d", i) gives, 0 <= i < 100.
Canonical(name) ==
    \E i \in 0..(NumFiles - 1) : name = FilePrefix \o Itoa(i)

\* C8: name validation: a FileAppend (of a client whose id is not the
\* sentinel for "free") goes on to open its file only if the name is
\* "file_<i>" in canonical form with 0 <= i < 100, and is turned down as
\* invalid only if it is not; every other name ends before any I/O.
C8_NameValidation ==
    \A p \in Procs :
        args[p].ClientId # Free
        => /\ Appending(p) => Canonical(args[p].Filename)
           /\ (pc[p] = "f_ret" /\ kind[p] = "io") => Canonical(args[p].Filename)
           /\ (pc[p] = "f_ret" /\ kind[p] = "validation")
              => ~Canonical(args[p].Filename)

\* C9: the three error kinds stay distinguishable: two calls that failed for
\* different reasons (permission, validation, I/O) return different results.
C9_ErrorKindsDiffer ==
    \A p, q \in Procs :
        (kind[p] # "none" /\ kind[q] # "none" /\ kind[p] # kind[q])
        => ret[p] # ret[q]

\* The handler has decided that its LockRelease or FileAppend fails and has
\* not returned yet.
Failed(p) == pc[p] \in {"r_ret", "f_ret"} /\ ret[p] # Status_SUCCESS

\* C10: a failed operation leaves the state intact: a LockRelease or
\* FileAppend that fails changes neither the holder nor the set of blocked
\* callers nor (but for the bytes of a write that failed midway) any file;
\* the holder does not change while the failing handler is in its critical
\* section; and when it returns s.mu is free again.
C10_FailureLeavesStateIntact ==
    /\ [](\A p \in Procs : Failed(p) => mu = p)
    /\ [][\A p \in Procs :
            /\ (~Failed(p) /\ Failed(p)')
               => /\ lockHolder' = lockHolder
                  /\ mu' = mu
                  /\ Parked' = Parked
                  /\ Woken' = Woken
                  /\ IF pc[p] = "f_write"
                     THEN LET path == FullPath(args[p].Filename)
                          IN  /\ \E n \in 0..(Len(args[p].Content) - 1) :
                                   files'[path].data
                                     = files[path].data \o SubSeq(args[p].Content, 1, n)
                              /\ \A other \in Paths \ {path} :
                                   files'[other] = files[other]
                     ELSE files' = files
            /\ (Failed(p) /\ ~Failed(p)')
               => /\ pc'[p] = "done"
                  /\ mu' = NoProc
                  /\ lockHolder' = lockHolder
                  /\ Parked' = Parked
                  /\ Woken' = Woken
                  /\ files' = files
            /\ ( \/ InAppend(p)
                 \/ Failed(p)
                 \/ (pc[p] = "r_check" /\ lockHolder # args[p].ClientId) )
               => lockHolder' = lockHolder ]_vars

\* C10 witness: a call that failed has returned, the lock is still held and
\* a FileAppend of the holder has since written its payload.
C10_Witness ==
    \E p, q \in Procs :
        /\ pc[p] = "done"
        /\ kind[p] # "none"
        /\ ret[p] = Status_FILE_ERROR
        /\ pc[q] = "f_ret"
        /\ ret[q] = Status_SUCCESS
        /\ lockHolder = args[q].ClientId
        /\ lockHolder # Free

\* Every holder eventually releases: the lock is unheld again and again.
HolderReleases == []<>(lockHolder = Free)

\* C11 as stated: under a fair scheduler, and provided every holder
\* eventually releases, every caller blocked in LockAcquire is eventually
\* granted the lock.
C11_EveryWaiterProceeds ==
    HolderReleases => \A p \in Procs : (p \in Blocked) ~> GrantedTo(p)

\* C11 amended: under a fair scheduler, and provided every holder eventually
\* releases, every caller blocked in LockAcquire is woken by each release
\* and tests the holder again (it may find the lock taken by another caller
\* and block again, without bound).
C11_EveryWaiterRechecks ==
    HolderReleases => \A p \in Procs : (p \in Blocked) ~> (pc[p] = "a_check")

\* C11 witness: a caller woken by a release waits for s.mu while another
\* call has been granted the lock ahead of it.
C11_Witness ==
    \E p, q \in Procs :
        /\ pc[p] = "a_woken"
        /\ pc[q] = "a_ret"
        /\ lockHolder = args[q].ClientId
        /\ lockHolder # Free

\* The handler serves a LockRelease or a FileAppend that has not returned.
InReleaseOrAppend(p) ==
    pc[p] \in {"r_lock", "r_check", "r_bcast", "r_ret",
               "f_lock", "f_check", "f_open", "f_write", "f_ret"}

\* C12: only LockAcquire can block: every LockRelease and every FileAppend
\* eventually returns, whoever holds the lock and whoever is blocked; the
\* one thing either waits for is s.mu, so that whenever no other goroutine
\* holds s.mu the handler can take its next step, whatever the holder is.
C12_ReleaseAndAppendReturn ==
    /\ \A p \in Procs : InReleaseOrAppend(p) ~> (pc[p] = "done")
    /\ [](\A p \in Procs :
            (InReleaseOrAppend(p) /\ mu \in {NoProc, p})
            => ENABLED (StepLock(p) \/ StepAppend(p)))

\* C12 witness: a FileAppend of a caller that is not the holder is about to
\* return while the lock is held and another caller is blocked in
\* LockAcquire.
C12_Witness ==
    \E p, q \in Procs :
        /\ pc[p] = "f_ret"
        /\ lockHolder # Free
        /\ lockHolder # args[p].ClientId
        /\ pc[q] = "a_parked"

\* C13: appends to different files do not block each other: while one
\* FileAppend is between the start and the end of its write, a FileAppend
\* to another file does not have to wait for it: it can go on at once.
C13_DifferentFilesDoNotBlock ==
    \A p, q \in Procs :
        ( /\ p # q
          /\ Appending(p)
          /\ pc[q] = "f_lock"
          /\ args[p].Filename # args[q].Filename )
        => ENABLED FLock(q)

\* The last n bytes of the sequence d.
Suffix(d, n) == SubSeq(d, Len(d) - n + 1, Len(d))

\* C14: sequential append content: on a data directory in which the file
\* may not exist yet, every FileAppend of the holder with a valid name
\* succeeds, and when it returns the file ends with its payload, put after
\* what the appends before it had written.
C14_SequentialAppends ==
    \A p \in Procs :
        (pc[p] = "f_ret" /\ kind[p] # "permission")
        => /\ ret[p] = Status_SUCCESS
           /\ LET d == files[FullPath(args[p].Filename)].data
              IN  /\ Len(d) >= Len(args[p].Content)
                  /\ Suffix(d, Len(args[p].Content)) = args[p].Content

\* The paths of the resources file_0 .. file_99 the model keeps.
Resources == { path \in Paths : \E i \in 0..(NumFiles - 1) : path = DataFile(i) }

\* C15: idempotent bootstrap: whatever the data directory holds, CreateFiles
\* leaves every existing file with its content, makes every resource
\* file_0 .. file_99 exist (a missing one as an empty file) and no other
\* file, and a second call changes nothing.
C15_IdempotentBootstrap ==
    LET once == CreateFiles(files)
    IN  /\ \A path \in Paths : files[path].exists => once[path] = files[path]
        /\ \A path \in Resources :
              /\ once[path].exists
              /\ ~files[path].exists => once[path].data = <<>>
        /\ \A path \in Paths \ Resources : once[path] = files[path]
        /\ CreateFiles(once) = once

\* C15 witness: a directory in which one resource holds content and
\* another is missing: CreateFiles keeps the first and creates the second.
C15_Witness ==
    \E path, other \in Resources :
        /\ files[path].data # <<>>
        /\ ~files[other].exists
        /\ CreateFiles(files)[other].exists

\* C16: cleanup: when Cleanup has returned no handle is cached, and an
\* AppendToFile made after it (to any valid name) succeeds: it opens the file
\* again, caches the handle and puts its payload at the end of the file.
C16_Cleanup ==
    /\ pc[FmCaller] = "cleaned" => openFiles = {}
    /\ pc[FmCaller] = "appended"
       => /\ ret[FmCaller] = Status_SUCCESS
          /\ args[FmCaller].Filename \in openFiles
          /\ LET d == files[FullPath(args[FmCaller].Filename)]
             IN  /\ d.exists
                 /\ Len(d.data) >= Len(args[FmCaller].Content)
                 /\ Suffix(d.data, Len(args[FmCaller].Content))
                      = args[FmCaller].Content

\* C16 witness: a file written before a Cleanup has no cached handle any
\* more, and an append made after the Cleanup to a file that held content
\* has its handle cached again.
C16_Witness ==
    \E n1, n2 \in StoreNames :
        /\ n1 # n2
        /\ pc[FmCaller] = "appended"
        /\ args[FmCaller].Filename = n1
        /\ openFiles = {n1}
        /\ files[FullPath(n1)].data # args[FmCaller].Content
        /\ files[FullPath(n2)].data # <<>>

\* C17: exactly one woken waiter wins: when a call has been granted the lock
\* while callers woken by a release have still to test the holder again,
\* that call is the one grant since the release and the lock is held by its
\* client, so that each of the others finds the lock held and blocks again;
\* and a caller that blocks again leaves the holder as it is.
C17_ExactlyOneWins ==
    /\ [](\A p \in Procs :
            (GrantedTo(p) /\ Woken # {})
            => /\ lockHolder = args[p].ClientId
               /\ lockHolder # Free
               /\ outstanding = 1)
    /\ [][\A p \in Procs :
            (pc[p] = "a_check" /\ pc'[p] = "a_parked")
            => (lockHolder' = lockHolder /\ lockHolder # Free)]_vars

\* The handler serves a ClientInit, a ClientClose or a FileAppend.
InOtherRpc(p) ==
    pc[p] \in {"i_call", "i_ret", "c_call", "c_ret",
               "f_lock", "f_check", "f_open", "f_write", "f_ret"}

\* C18: the holder changes only through LockAcquire and LockRelease: it is
\* unheld (-1) when the server starts; a step that changes it is the grant
\* of a LockAcquire (to the client id of the call) or the release of a
\* LockRelease by the holder (to unheld); no step of ClientInit, ClientClose
\* or FileAppend changes it, and ClientClose returns 0.
C18_HolderFrame ==
    /\ lockHolder = Free
    /\ [][ /\ (lockHolder' # lockHolder)
              => \E p \in Procs :
                    \/ /\ pc[p] = "a_check" /\ pc'[p] = "a_ret"
                       /\ lockHolder' = args[p].ClientId
                    \/ /\ pc[p] = "r_check" /\ pc'[p] = "r_bcast"
                       /\ lockHolder = args[p].ClientId
                       /\ lockHolder' = Free
           /\ \A p \in Procs :
                /\ (InOtherRpc(p) /\ pc'[p] # pc[p]) => lockHolder' = lockHolder
                /\ (pc[p] = "c_call" /\ pc'[p] # pc[p])
                   => (pc'[p] = "c_ret" /\ ret'[p] = 0) ]_vars

\* C18 witness: a ClientClose has answered 0 while the lock is held, after
\* a FileAppend of the holder has written.
C18_Witness ==
    \E p \in Procs :
        /\ pc[p] = "c_ret"
        /\ ret[p] = 0
        /\ lockHolder # Free
        /\ files[FullPath(ClientFile)].data # <<>>

\* C19: no timeout on LockAcquire: while a grant has not been released by
\* its holder no LockAcquire of another caller returns, and the server does
\* not free the lock by itself: the holder becomes unheld by a LockRelease
\* of the holder and by nothing else.
C19_NoTimeout ==
    [][ /\ \A p \in Procs :
              ( /\ pc[p] # "a_ret" /\ pc'[p] = "a_ret"
                /\ args[p].ClientId # lockHolder )
              => outstanding = 0
        /\ (lockHolder # Free /\ lockHolder' = Free)
           => \E p \in Procs :
                 /\ pc[p] = "r_check" /\ pc'[p] = "r_bcast"
                 /\ args[p].ClientId = lockHolder ]_vars

\* C20: no FIFO among waiters: the server keeps no record of the order in
\* which the callers started to wait, and after a release any of them may
\* be the next one granted: whenever s.mu is free every woken caller,
\* whichever it is, can take s.mu, and a caller that holds s.mu and finds
\* the lock unheld is granted.
C20_AnyWaiterMayWin ==
    \A p \in Procs :
        /\ (pc[p] = "a_woken" /\ mu = NoProc) => ENABLED AcqWake(p)
        /\ (pc[p] = "a_check" /\ lockHolder = Free)
           => (mu = p /\ ENABLED AcqGrant(p))

\* C20 witness: after a release, with the lock unheld and s.mu free, two
\* callers are woken and either may go on.
C20_Witness ==
    /\ lockHolder = Free
    /\ mu = NoProc
    /\ Cardinality(Woken) >= 2
    /\ \A p \in Woken : ENABLED AcqWake(p)

\* The sequence d followed by the first n bytes of the payload.
WithPrefix(d, payload, n) == d \o SubSeq(payload, 1, n)

\* C21: failed or partial write: FileAppend returns SUCCESS only if its whole
\* payload is at the end of the file; when the open fails the call returns
\* an error and no file changes; when the write fails the call returns an
\* error and the file holds what it held, followed by a part (maybe none,
\* never all) of the payload; and there is one attempt: from the open the
\* handler goes to the write or to its return, from the write to its return,
\* and from there out of the call.
C21_FailedOrPartialWrite ==
    /\ [](\A p \in Procs :
            (pc[p] = "f_ret" /\ ret[p] = Status_SUCCESS)
            => LET d == files[FullPath(args[p].Filename)].data
               IN  /\ Len(d) >= Len(args[p].Content)
                   /\ Suffix(d, Len(args[p].Content)) = args[p].Content)
    /\ [][\A p \in Procs :
            /\ (pc[p] = "f_open" /\ pc'[p] # "f_open")
               => /\ files' = files
                  /\ \/ pc'[p] = "f_write"
                     \/ pc'[p] = "f_ret" /\ ret'[p] # Status_SUCCESS
            /\ (pc[p] = "f_write" /\ pc'[p] # "f_write")
               => LET path == FullPath(args[p].Filename)
                      d == files[path].data
                      len == Len(args[p].Content)
                  IN  /\ pc'[p] = "f_ret"
                      /\ \A other \in Paths \ {path} : files'[other] = files[other]
                      /\ IF ret'[p] = Status_SUCCESS
                         THEN files'[path].data = WithPrefix(d, args[p].Content, len)
                         ELSE \E n \in 0..(len - 1) :
                                 files'[path].data = WithPrefix(d, args[p].Content, n)
            /\ (pc[p] = "f_ret" /\ pc'[p] # "f_ret")
               => (pc'[p] = "done" /\ files' = files /\ ret'[p] = ret[p]) ]_vars

\* C21 witness: a write has failed after the first byte of a payload of two:
\* the call is about to return an error and the file ends with that byte.
C21_Witness ==
    \E p \in Procs :
        /\ pc[p] = "f_ret"
        /\ ret[p] = Status_FILE_ERROR
        /\ kind[p] = "io"
        /\ Len(args[p].Content) = 2
        /\ LET d == files[FullPath(args[p].Filename)].data
           IN  /\ Len(d) >= 1
               /\ Suffix(d, 1) = SubSeq(args[p].Content, 1, 1)

\* C22: the lock is not re-entrant: a LockAcquire(id) that tests the holder
\* while a grant to id has not been released blocks like any other: it is
\* not granted, it parks.
C22_NotReentrant ==
    [][\A p \in Procs :
          ( /\ pc[p] = "a_check"
            /\ pc'[p] # "a_check"
            /\ outstanding >= 1
            /\ lockHolder = args[p].ClientId )
          => (pc'[p] = "a_parked" /\ lockHolder' = lockHolder)]_vars

\* The client program has ended: main has returned, or log.Fatalf has ended
\* the process.
Ended(p) == client[p].pos \in {"exit", "fatal"}

\* C23: a client always gives the lock back: a client program (whose id is
\* not the sentinel for "free") ends either before its LockAcquire has been
\* granted or after it has sent its LockRelease, and on no other path; so
\* no caller is left blocked in LockAcquire on a lock held by a client
\* program that has ended.
C23_ClientGivesLockBack ==
    /\ [][\A p \in Clients :
            (client[p].id # Free /\ ~Ended(p) /\ Ended(p)')
            => client[p].pos \in {"start", "init", "release", "close"}]_vars
    /\ [](\A p, q \in Clients :
            (client[p].id # Free /\ Ended(p) /\ q \in Blocked)
            => lockHolder # client[p].id)

\* The handler is between its s.mu.Lock() and its deferred s.mu.Unlock(), the
\* condition wait excluded.
InMutexRegion(p) ==
    pc[p] \in {"a_check", "a_ret", "r_check", "r_bcast", "r_ret",
               "f_check", "f_open", "f_write", "f_ret"}

\* The steps of a handler that read or write s.lockHolder start here.
AtHolderAccess(p) == pc[p] \in {"a_check", "r_check", "f_check"}

\* C24: the holder is accessed only under the guard: the handlers inside the
\* region protected by s.mu are exactly the owner of s.mu, hence at most one
\* of them; a caller parked in the condition wait, or woken and not yet
\* running, does not own s.mu; a step that reads s.lockHolder is a step of
\* the owner of s.mu, and s.lockHolder changes only in a step of the owner,
\* who keeps s.mu through the step.
C24_HolderUnderGuard ==
    /\ [](\A p \in Procs : InMutexRegion(p) <=> mu = p)
    /\ [](Cardinality({ p \in Procs : InMutexRegion(p) }) <= 1)
    /\ [](\A p \in Blocked : mu # p)
    /\ [][\A p \in Procs :
            (AtHolderAccess(p) /\ pc'[p] # pc[p]) => mu = p]_vars
    /\ [][lockHolder' # lockHolder
            => /\ mu \in Procs
               /\ AtHolderAccess(mu)
               /\ pc'[mu] # pc[mu]
               /\ mu' = mu]_vars

\* One caller is parked in the condition wait while another handler is
\* inside the region, a FileAppend writing or a LockRelease that has just
\* freed the holder.
C24_Witness ==
    \E p, q \in Procs :
        /\ p # q
        /\ pc[p] = "a_parked"
        /\ pc[q] \in {"f_write", "r_bcast"}
        /\ mu = q

====
